---- MODULE Spec2Model ----
(***************************************************************************)
(* State-machine model of backend/server.py (FUTURA budget tracker API).   *)
(*                                                                         *)
(* The document store is three insertion-ordered collections (users,       *)
(* transactions, budgets).  Every endpoint is one action; the response of  *)
(* the last request is kept in resp.  Time is counted in half days (12 h)  *)
(* since 1 January 00:00 UTC of a non-leap year.                           *)
(***************************************************************************)
EXTENDS FiniteSets, Integers, Sequences, TLC

VARIABLES users, transactions, budgets, issued, now, ticks, reg, resp

vars == <<users, transactions, budgets, issued, now, ticks, reg, resp>>
store == <<users, transactions, budgets>>

----------------------------------------------------------------------------
(* Bounds of the model *)

MaxUsers == 2
MaxTx == 2
MaxBudgets == 1
MaxTicks == 1
MaxProcs == 2
\* Largest number of small purchases in a prepared ledger
MaxPurchases == 11

----------------------------------------------------------------------------
(* Floats.  amount and monthly_budget are Python floats; besides numbers   *)
(* a float can be NaN, for which every ordering comparison is False and    *)
(* which every arithmetic operation propagates.                            *)

NaN == -999999

IsNaN(x) == x = NaN
FAdd(a, b) == IF IsNaN(a) \/ IsNaN(b) THEN NaN ELSE a + b
FSub(a, b) == IF IsNaN(a) \/ IsNaN(b) THEN NaN ELSE a - b
FLe(a, b) == ~IsNaN(a) /\ ~IsNaN(b) /\ a <= b
FLt(a, b) == ~IsNaN(a) /\ ~IsNaN(b) /\ a < b
FGt(a, b) == FLt(b, a)
FMul(a, b) == IF IsNaN(a) \/ IsNaN(b) THEN NaN ELSE a * b

\* sum(...) over a sequence of floats, left to right from 0
RECURSIVE FSum(_)
FSum(s) == IF s = <<>> THEN 0 ELSE FAdd(FSum(SubSeq(s, 1, Len(s) - 1)), s[Len(s)])

\* A quotient a / b kept exact as the pair <<numerator, denominator>>;
\* <<NaN, 1>> is the NaN quotient.
Ratio(n, d) == IF IsNaN(n) \/ IsNaN(d) THEN <<NaN, 1>> ELSE <<n, d>>
RatioIsNaN(r) == IsNaN(r[1])
\* r > k for a ratio with positive denominator (False for NaN)
RatioGt(r, k) == ~RatioIsNaN(r) /\ r[1] > k * r[2]

----------------------------------------------------------------------------
(* Calendar: half days since 1 January 00:00 UTC, non-leap year *)

MonthLen == <<31, 28, 31, 30, 31, 30, 31, 31, 30, 31, 30, 31>>

RECURSIVE DaysBefore(_)
DaysBefore(m) == IF m <= 1 THEN 0 ELSE DaysBefore(m - 1) + MonthLen[m - 1]

\* timedelta(days=n), in half days
Days(n) == 2 * n
LastInstant == Days(DaysBefore(13)) - 1

\* datetime.date(): the calendar day (0-based day of the year) of an instant
DayOf(t) == t \div 2
MonthOf(day) == CHOOSE m \in 1..12 : DaysBefore(m) <= day /\ day < DaysBefore(m + 1)
DayOfMonth(day) == day - DaysBefore(MonthOf(day)) + 1
\* now.replace(day=1, hour=0, minute=0, second=0, microsecond=0)
MonthStart(t) == Days(DaysBefore(MonthOf(DayOf(t))))

\* The wall clock when the server starts: 3 March 12:00 UTC
StartInstants == {Days(DaysBefore(3) + 2) + 1}

----------------------------------------------------------------------------
(* Datetimes.  A Python datetime is its wall-clock reading (local, in half *)
(* days) and its UTC offset (off, in half days: +12:00 is 1, -12:00 is     *)
(* -1).  The store holds isoformat() strings: the wall clock first, the    *)
(* offset text last; strings compare byte by byte.                         *)

NoDate == [null |-> TRUE, local |-> 0, off |-> 0]
DateTime(l, o) == [null |-> FALSE, local |-> l, off |-> o]
\* datetime.now(timezone.utc)
UtcNow(t) == DateTime(t, 0)

NoIso == [null |-> TRUE, wall |-> 0, tz |-> ""]
TzText(o) == IF o = 0 THEN "+00:00" ELSE IF o > 0 THEN "+12:00" ELSE "-12:00"
TzOffset(z) == IF z = "+00:00" THEN 0 ELSE IF z = "+12:00" THEN 1 ELSE -1
\* Rank of an offset text in byte order: "+00:00" < "+12:00" < "-12:00"
TzRank(z) == IF z = "+00:00" THEN 0 ELSE IF z = "+12:00" THEN 1 ELSE 2

\* datetime.isoformat()
isoformat(d) == [null |-> FALSE, wall |-> d.local, tz |-> TzText(d.off)]
\* datetime.fromisoformat()
fromisoformat(s) == DateTime(s.wall, TzOffset(s.tz))

\* prepare_for_mongo, on the date field: a datetime becomes its isoformat()
\* string, None stays None (null in the store)
prepare_for_mongo(d) == IF d.null THEN NoIso ELSE isoformat(d)
\* parse_from_mongo, on the date field: a string is parsed back, null stays None
parse_from_mongo(s) == IF s.null THEN NoDate ELSE fromisoformat(s)

\* The instant a datetime denotes (aware datetimes compare by it)
Instant(d) == d.local - d.off
\* t.date.date(): the calendar day of the wall-clock reading
LocalDay(d) == DayOf(d.local)

\* Byte-wise comparison of two isoformat() strings
IsoLess(a, b) ==
    \/ a.wall < b.wall
    \/ a.wall = b.wall /\ TzRank(a.tz) < TzRank(b.tz)

\* BSON ordering of the stored date field: null sorts below every string
StoredLess(a, b) ==
    \/ a.null /\ ~b.null
    \/ ~a.null /\ ~b.null /\ IsoLess(a, b)
\* {"date": {"$gte": bound}}: only strings compare with a string bound
MatchesGte(s, bound) == ~s.null /\ ~IsoLess(s, bound)

----------------------------------------------------------------------------
(* Documents and the store's queries *)

\* find_one / update_one act on the first matching document in natural
\* (insertion) order; 0 stands for "no document"
Min(S) == CHOOSE x \in S : \A y \in S : x <= y
FirstUserById(us, id) ==
    LET m == {i \in 1..Len(us) : us[i].id = id} IN IF m = {} THEN 0 ELSE Min(m)
FirstUserByEmail_Never(us, email) == 0
FirstUserByEmail(us, email) ==
    LET m == {i \in 1..Len(us) : us[i].email = email} IN IF m = {} THEN 0 ELSE Min(m)

\* {"$set": fields} on one document: the named fields are overwritten
SetFields(doc, fields) ==
    [f \in DOMAIN doc |-> IF f \in DOMAIN fields THEN fields[f] ELSE doc[f]]

\* class User: the fields the API reads (password_hash is not part of it)
NoUser == [id |-> 0, email |-> "", monthly_budget |-> 0]
UserModel(doc) == [id |-> doc.id, email |-> doc.email, monthly_budget |-> doc.monthly_budget]
\* The JSON encoder refuses NaN (allow_nan=False)
UserSerializes(u) == ~IsNaN(u.monthly_budget)
\* User.monthly_budget: float = 10000.0
DefaultMonthlyBudget == 10000

\* get_password_hash / verify_password
get_password_hash(password) == <<"bcrypt", password>>
verify_password(plain, hashed) == hashed = get_password_hash(plain)

----------------------------------------------------------------------------
(* Bearer tokens *)

\* ACCESS_TOKEN_EXPIRE_MINUTES = 30 * 24 * 60
ACCESS_TOKEN_EXPIRE == Days(30)

\* payload.get("sub") of a token that carries no subject
NoSub == 0
\* An id no registration of this deployment has produced
GhostId == MaxUsers + 1

\* A request without an Authorization header
NoCred == [sub |-> NoSub, exp |-> 0, sig |-> "missing"]

\* create_access_token(data={"sub": id}) at time t
create_access_token(sub, t) == [sub |-> sub, exp |-> t + ACCESS_TOKEN_EXPIRE, sig |-> "valid"]

\* jwt.decode: the signature is verified, then the exp claim (an expired
\* token raises ExpiredSignatureError, a JWTError)
jwt_decode_ok(c, t) == c.sig = "valid" /\ ~(t > c.exp)

\* get_current_user: the index of the user record the credential resolves
\* to, 0 when the dependency raises
get_current_user(c, us, t) ==
    IF c.sig = "missing" THEN 0
    ELSE IF ~jwt_decode_ok(c, t) THEN 0
    ELSE IF c.sub = NoSub THEN 0
    ELSE FirstUserById(us, c.sub)

\* The status of the refusal.  HTTPBearer() refuses a request without
\* credentials itself: with 403 in FastAPI releases before 0.122, with 401
\* since; get_current_user raises credentials_exception (401).
DenyStatus(c) == IF c.sig = "missing" THEN {401, 403} ELSE {401}

\* What a client can present: nothing, a token with a wrong signature, a
\* validly signed token without subject or for an id without record (signed
\* with the same SECRET_KEY elsewhere), or a token this server issued
Credentials ==
    {NoCred,
     [sub |-> 1, exp |-> LastInstant, sig |-> "forged"],
     [sub |-> NoSub, exp |-> LastInstant, sig |-> "valid"],
     [sub |-> GhostId, exp |-> LastInstant, sig |-> "valid"]}
    \cup issued

----------------------------------------------------------------------------
(* Transactions *)

\* TransactionCreate.validate_type
validate_type(v) == v \in {"income", "expense"}
\* TransactionCreate.validate_amount: raises when v <= 0
validate_amount(v) == ~FLe(v, 0)
\* The request body passes TransactionCreate
ValidTransactionCreate(data) == validate_type(data.type) /\ validate_amount(data.amount)

\* class Transaction, as inserted by create_transaction
NewTransaction(id, user_id, data, t) ==
    [id |-> id, user_id |-> user_id, type |-> data.type, amount |-> data.amount,
     category |-> data.category,
     date |-> prepare_for_mongo(IF data.date.null THEN UtcNow(t) ELSE data.date),
     deleted |-> FALSE]

\* {"$set": prepare_for_mongo(transaction_data.dict())} of update_transaction
UpdateFields(data) ==
    [type |-> data.type, amount |-> data.amount, category |-> data.category,
     date |-> prepare_for_mongo(data.date)]

\* {"$set": {"deleted": True}} of delete_transaction
DeleteFields == [deleted |-> TRUE]

\* update_one({"id": transaction_id, "user_id": current_user.id}, ...): the
\* index of the matched document, 0 when matched_count == 0
MatchOwned_AnyOwner(txs, txid, uid) ==
    LET m == {i \in 1..Len(txs) : txs[i].id = txid} IN IF m = {} THEN 0 ELSE Min(m)
MatchOwned(txs, txid, uid) ==
    LET m == {i \in 1..Len(txs) : txs[i].id = txid /\ txs[i].user_id = uid}
    IN IF m = {} THEN 0 ELSE Min(m)
\* find_one({"id": transaction_id})
FirstTxById(txs, txid) ==
    LET m == {i \in 1..Len(txs) : txs[i].id = txid} IN IF m = {} THEN 0 ELSE Min(m)

\* Transaction(**parse_from_mongo(t)): the date string is parsed back
TxModel(doc) == [doc EXCEPT !.date = parse_from_mongo(doc.date)]
\* Transaction(**...) raises when date is None (the field is not Optional)
TxParses(doc) == ~doc.date.null
\* The JSON encoder refuses NaN (allow_nan=False)
TxSerializes(doc) == ~IsNaN(doc.amount)

\* All orders of a set of indices
Perms(S) ==
    {f \in [1..Cardinality(S) -> S] : \A i, j \in 1..Cardinality(S) : i # j => f[i] # f[j]}
\* .sort("date", -1): every order of the matched documents that is descending
\* in the stored date field (the order among equal keys is not specified)
SortedByDateDesc(txs, S) ==
    {o \in Perms(S) : \A i, j \in 1..Len(o) :
        i < j => ~StoredLess(txs[o[i]].date, txs[o[j]].date)}

\* The query of get_transactions: "if category:" and "if type:" add a filter
\* only for a non-empty string
ListQuery_WithDeleted(txs, uid, category, type) ==
    {i \in 1..Len(txs) :
        /\ txs[i].user_id = uid
        /\ (category # "" => txs[i].category = category)
        /\ (type # "" => txs[i].type = type)}
ListQuery(txs, uid, category, type) ==
    {i \in 1..Len(txs) :
        /\ txs[i].user_id = uid
        /\ txs[i].deleted = FALSE
        /\ (category # "" => txs[i].category = category)
        /\ (type # "" => txs[i].type = type)}

\* .skip(offset).limit(limit): a limit of 0 is no limit
SkipLimit(o, offset, limit) ==
    LET rest == SubSeq(o, offset + 1, Len(o))
    IN IF limit = 0 \/ limit >= Len(rest) THEN rest ELSE SubSeq(rest, 1, limit)

\* get_transactions for the user uid: the possible responses, as
\* [status, body]
get_transactions(txs, uid, limit, offset, category, type) ==
    {LET page == SkipLimit(o, offset, limit)
     IN IF \A k \in 1..Len(page) : TxParses(txs[page[k]]) /\ TxSerializes(txs[page[k]])
        THEN [status |-> 200, body |-> [k \in 1..Len(page) |-> TxModel(txs[page[k]])]]
        ELSE [status |-> 500, body |-> <<>>]
     : o \in SortedByDateDesc(txs, ListQuery(txs, uid, category, type))}

----------------------------------------------------------------------------
(* Dashboard *)

\* The amounts of a sequence of transactions: (t.amount for t in ts)
Amounts(ts) == [k \in 1..Len(ts) |-> ts[k].amount]

\* start_date of get_dashboard_data
PeriodStart(period, t) ==
    IF period = "monthly" THEN MonthStart(t)
    ELSE IF period = "weekly" THEN t - Days(7)
    ELSE t - Days(30)

\* find({"user_id": ..., "deleted": False, "date": {"$gte": start.isoformat()}})
DateRangeQuery(txs, uid, start) ==
    {i \in 1..Len(txs) :
        /\ txs[i].user_id = uid
        /\ txs[i].deleted = FALSE
        /\ MatchesGte(txs[i].date, isoformat(UtcNow(start)))}

\* min((total_expenses / monthly_budget) * 100, 100) if monthly_budget > 0 else 0
\* (Python's min keeps its first argument unless the second is smaller)
BudgetUsedPercent_Uncapped(total_expenses, monthly_budget) ==
    IF FGt(monthly_budget, 0)
    THEN Ratio(FMul(total_expenses, 100), monthly_budget)
    ELSE <<0, 1>>
BudgetUsedPercent(total_expenses, monthly_budget) ==
    IF FGt(monthly_budget, 0)
    THEN LET r == Ratio(FMul(total_expenses, 100), monthly_budget)
         IN IF RatioGt(r, 100) THEN <<100, 1>> ELSE r
    ELSE <<0, 1>>

\* category_breakdown: expense sum per category
CategoryBreakdown(ts) ==
    LET cats == {ts[k].category : k \in {j \in 1..Len(ts) : ts[j].type = "expense"}}
    IN [c \in cats |->
          FSum(Amounts(SelectSeq(ts, LAMBDA x : x.type = "expense" /\ x.category = c)))]

\* monthly_trend: for i in range(7), the expenses of the fetched transactions
\* whose date().date() is the day of now - i days; then reversed
TrendDays == 7
MonthlyTrend(ts, t) ==
    [k \in 1..TrendDays |->
        LET day == DayOf(t - Days(TrendDays - k))
        IN [date |-> day,
            amount |-> FSum(Amounts(SelectSeq(ts,
                LAMBDA x : LocalDay(x.date) = day /\ x.type = "expense")))]]

\* recent_transactions=transactions[:10]
RecentCount == 10
Prefix(ts, n) == IF Len(ts) <= n THEN ts ELSE SubSeq(ts, 1, n)

NoDash ==
    [total_income |-> 0, total_expenses |-> 0, balance |-> 0,
     budget_used_percent |-> <<0, 1>>, recent_transactions |-> <<>>,
     category_breakdown |-> <<>>, monthly_trend |-> <<>>]

\* DashboardData computed from the fetched, sorted transactions
DashboardData(ts, user, t) ==
    LET total_income == FSum(Amounts(SelectSeq(ts, LAMBDA x : x.type = "income")))
        total_expenses == FSum(Amounts(SelectSeq(ts, LAMBDA x : x.type = "expense")))
    IN [total_income |-> total_income,
        total_expenses |-> total_expenses,
        balance |-> FSub(total_income, total_expenses),
        budget_used_percent |-> BudgetUsedPercent(total_expenses, user.monthly_budget),
        recent_transactions |-> Prefix(ts, RecentCount),
        category_breakdown |-> CategoryBreakdown(ts),
        monthly_trend |-> MonthlyTrend(ts, t)]

\* get_dashboard_data for the user: the possible responses, as [status, dash].
\* The response cannot be encoded when an amount in it is NaN.
get_dashboard_data(txs, user, period, t) ==
    {LET ts == [k \in 1..Len(o) |-> TxModel(txs[o[k]])]
     IN IF \A k \in 1..Len(ts) : TxSerializes(ts[k])
        THEN [status |-> 200, dash |-> DashboardData(ts, user, t)]
        ELSE [status |-> 500, dash |-> NoDash]
     : o \in SortedByDateDesc(txs, DateRangeQuery(txs, user.id, PeriodStart(period, t)))}

----------------------------------------------------------------------------
(* Insights *)

NoInsights == [tips |-> <<>>, projected_spend |-> <<0, 1>>, projected_balance |-> <<0, 1>>]

\* Largest value of a non-empty set of numbers
Max(S) == CHOOSE x \in S : \A y \in S : y <= x

\* The tips, in the order they are appended
InsightTips(expenses, monthly_budget) ==
    LET total == FSum(Amounts(expenses))
        totals == CategoryBreakdown(expenses)
        \* percentage = (top_amount / total_expenses) * 100 > 30; NaN compares False
        top == IF IsNaN(total) \/ \E c \in DOMAIN totals : IsNaN(totals[c])
               THEN FALSE
               ELSE Max({totals[c] : c \in DOMAIN totals}) * 100 > 30 * total
        small == Len(SelectSeq(expenses, LAMBDA x : FLt(x.amount, 100)))
    IN (IF top THEN <<"top_category">> ELSE <<>>)
       \o (IF small > 10 THEN <<"small_purchases">> ELSE <<>>)
       \o (IF FGt(total, monthly_budget) THEN <<"over_budget">> ELSE <<"under_budget">>)

\* The indices S in insertion order: a find without sort
RECURSIVE Ascending(_)
Ascending(S) == IF S = {} THEN <<>> ELSE <<Min(S)>> \o Ascending(S \ {Min(S)})

\* get_insights for the user, as [status, insights]
get_insights(txs, user, t) ==
    LET found == DateRangeQuery(txs, user.id, t - Days(30))
        o == Ascending(found)
        ts == [k \in 1..Len(o) |-> TxModel(txs[o[k]])]
        expenses == SelectSeq(ts, LAMBDA x : x.type = "expense")
        total == FSum(Amounts(expenses))
        month == MonthOf(DayOf(t))
        \* (now.replace(month=now.month+1, day=1) - timedelta(days=1)).day
        days_in_month == MonthLen[month]
        days_passed == DayOfMonth(DayOf(t))
        tips == InsightTips(expenses, user.monthly_budget)
    IN IF expenses = <<>>
       THEN [status |-> 200, insights |-> [NoInsights EXCEPT !.tips = <<"start_tracking">>]]
       \* replace(month=13) raises ValueError; a NaN projection cannot be encoded
       ELSE IF month + 1 > 12 \/ IsNaN(total) \/ IsNaN(user.monthly_budget)
       THEN [status |-> 500, insights |-> NoInsights]
       ELSE [status |-> 200,
             insights |->
               [tips |-> Prefix(tips, 3),
                projected_spend |-> <<total * days_in_month, days_passed>>,
                projected_balance |->
                    <<user.monthly_budget * days_passed - total * days_in_month,
                      days_passed>>]]

----------------------------------------------------------------------------
(* Budgets *)

\* class Budget, as inserted by create_budget
NewBudget(id, user_id, data) ==
    [id |-> id, user_id |-> user_id, category |-> data.category,
     limit |-> data.limit, period |-> data.period]

\* find({"user_id": current_user.id}) of get_budgets
get_budgets(bs, uid) == SelectSeq(bs, LAMBDA b : b.user_id = uid)

----------------------------------------------------------------------------
(* Responses.  resp is the answer to the request served by the last step:  *)
(* the endpoint, the HTTP status, the credential and the inputs of the     *)
(* request, the id of the authenticated caller, and the body.              *)

Reply(op, status, cred, req) ==
    [op |-> op, status |-> status, cred |-> cred, req |-> req, caller |-> 0,
     user |-> NoUser, token |-> NoCred, body |-> <<>>, dash |-> NoDash,
     insights |-> NoInsights]

\* No request was served by the step
NoReply == Reply("none", 0, NoCred, <<>>)

Idle == [pc |-> "idle", email |-> "", password |-> ""]

Init ==
    /\ users = <<>>
    /\ transactions = <<>>
    /\ budgets = <<>>
    /\ issued = {}
    /\ now \in StartInstants
    /\ ticks = 0
    /\ reg = [p \in 1..MaxProcs |-> Idle]
    /\ resp = NoReply

\* The dependency get_current_user (or HTTPBearer before it) refused the request
Denied(op, cred, req) ==
    /\ \E st \in DenyStatus(cred) : resp' = Reply(op, st, cred, req)
    /\ UNCHANGED <<users, transactions, budgets, issued, now, ticks, reg>>

----------------------------------------------------------------------------
(* Auth and user endpoints *)

\* The document register inserts: User(name, email).dict() plus password_hash
NewUser(id, email, password) ==
    [id |-> id, email |-> email, monthly_budget |-> DefaultMonthlyBudget,
     password_hash |-> get_password_hash(password)]

\* POST /auth/register, served without interruption
Register(email, password) ==
    LET req == [email |-> email]
        doc == NewUser(Len(users) + 1, email, password)
        token == create_access_token(doc.id, now)
    IN IF FirstUserByEmail(users, email) # 0
       THEN /\ resp' = Reply("register", 400, NoCred, req)
            /\ UNCHANGED <<users, transactions, budgets, issued, now, ticks, reg>>
       ELSE /\ Len(users) < MaxUsers
            /\ users' = Append(users, doc)
            /\ issued' = issued \cup {token}
            /\ resp' = [Reply("register", 200, NoCred, req) EXCEPT
                           !.token = token, !.user = UserModel(doc)]
            /\ UNCHANGED <<transactions, budgets, now, ticks, reg>>

\* POST /auth/register up to its first store call: find_one({"email": ...})
RegisterFind(p, email, password) ==
    /\ reg[p].pc = "idle"
    /\ IF FirstUserByEmail(users, email) # 0
       THEN /\ resp' = Reply("register", 400, NoCred, [email |-> email])
            /\ UNCHANGED reg
       ELSE /\ reg' = [reg EXCEPT ![p] = [pc |-> "insert", email |-> email,
                                          password |-> password]]
            /\ UNCHANGED resp
    /\ UNCHANGED <<users, transactions, budgets, issued, now, ticks>>

\* POST /auth/register from its second store call: insert_one(user_dict)
RegisterInsert(p) ==
    LET doc == NewUser(Len(users) + 1, reg[p].email, reg[p].password)
        token == create_access_token(doc.id, now)
    IN /\ reg[p].pc = "insert"
       /\ Len(users) < MaxUsers
       /\ users' = Append(users, doc)
       /\ issued' = issued \cup {token}
       /\ reg' = [reg EXCEPT ![p] = Idle]
       /\ resp' = [Reply("register", 200, NoCred, [email |-> doc.email]) EXCEPT
                      !.token = token, !.user = UserModel(doc)]
       /\ UNCHANGED <<transactions, budgets, now, ticks>>

\* POST /auth/login
Login(email, password) ==
    LET req == [email |-> email]
        i == FirstUserByEmail(users, email)
    IN IF i = 0 \/ ~verify_password(password, users[i].password_hash)
       THEN /\ resp' = Reply("login", 400, NoCred, req)
            /\ UNCHANGED <<users, transactions, budgets, issued, now, ticks, reg>>
       ELSE IF ~UserSerializes(UserModel(users[i]))
       THEN /\ resp' = Reply("login", 500, NoCred, req)
            /\ UNCHANGED <<users, transactions, budgets, issued, now, ticks, reg>>
       ELSE LET token == create_access_token(users[i].id, now)
            IN /\ issued' = issued \cup {token}
               /\ resp' = [Reply("login", 200, NoCred, req) EXCEPT
                              !.token = token, !.user = UserModel(users[i])]
               /\ UNCHANGED <<users, transactions, budgets, now, ticks, reg>>

\* GET /user/me
GetCurrentUserInfo(cred) ==
    LET u == get_current_user(cred, users, now)
    IN IF u = 0 THEN Denied("user/me", cred, <<>>)
       ELSE /\ resp' = IF UserSerializes(UserModel(users[u]))
                          THEN [Reply("user/me", 200, cred, <<>>) EXCEPT
                                   !.caller = users[u].id, !.user = UserModel(users[u])]
                          ELSE [Reply("user/me", 500, cred, <<>>) EXCEPT
                                   !.caller = users[u].id]
            /\ UNCHANGED <<users, transactions, budgets, issued, now, ticks, reg>>

\* PUT /user/settings: update_one({"id": current_user.id}, {"$set": settings}),
\* then find_one({"id": current_user.id})
UpdateUserSettings(cred, settings) ==
    LET u == get_current_user(cred, users, now)
    IN IF u = 0 THEN Denied("user/settings", cred, settings)
       ELSE LET id == users[u].id
                after == [users EXCEPT ![FirstUserById(users, id)] = SetFields(@, settings)]
                j == FirstUserById(after, id)
            IN /\ users' = after
               /\ resp' = IF j = 0 \/ ~UserSerializes(UserModel(after[j]))
                          THEN [Reply("user/settings", 500, cred, settings) EXCEPT
                                   !.caller = id]
                          ELSE [Reply("user/settings", 200, cred, settings) EXCEPT
                                   !.caller = id, !.user = UserModel(after[j])]
               /\ UNCHANGED <<transactions, budgets, issued, now, ticks, reg>>

----------------------------------------------------------------------------
(* Transaction endpoints *)

\* POST /transactions
CreateTransaction(cred, data) ==
    LET u == get_current_user(cred, users, now)
    IN IF u = 0 THEN Denied("create_transaction", cred, data)
       ELSE IF ~ValidTransactionCreate(data)
       THEN /\ resp' = [Reply("create_transaction", 422, cred, data) EXCEPT
                           !.caller = users[u].id]
            /\ UNCHANGED <<users, transactions, budgets, issued, now, ticks, reg>>
       ELSE LET doc == NewTransaction(Len(transactions) + 1, users[u].id, data, now)
            IN /\ Len(transactions) < MaxTx
               /\ transactions' = Append(transactions, doc)
               /\ resp' = IF TxSerializes(doc)
                          THEN [Reply("create_transaction", 200, cred, data) EXCEPT
                                   !.caller = users[u].id, !.body = <<TxModel(doc)>>]
                          ELSE [Reply("create_transaction", 500, cred, data) EXCEPT
                                   !.caller = users[u].id]
               /\ UNCHANGED <<users, budgets, issued, now, ticks, reg>>

\* GET /transactions
GetTransactions(cred, q) ==
    LET u == get_current_user(cred, users, now)
    IN IF u = 0 THEN Denied("get_transactions", cred, q)
       ELSE /\ \E r \in get_transactions(transactions, users[u].id,
                                         q.limit, q.offset, q.category, q.type) :
                 resp' = [Reply("get_transactions", r.status, cred, q) EXCEPT
                             !.caller = users[u].id, !.body = r.body]
            /\ UNCHANGED <<users, transactions, budgets, issued, now, ticks, reg>>

\* PUT /transactions/{transaction_id}
UpdateTransaction(cred, txid, data) ==
    LET u == get_current_user(cred, users, now)
        req == [txid |-> txid, data |-> data]
    IN IF u = 0 THEN Denied("update_transaction", cred, req)
       ELSE IF ~ValidTransactionCreate(data)
       THEN /\ resp' = [Reply("update_transaction", 422, cred, req) EXCEPT
                           !.caller = users[u].id]
            /\ UNCHANGED <<users, transactions, budgets, issued, now, ticks, reg>>
       ELSE LET m == MatchOwned(transactions, txid, users[u].id)
            IN IF m = 0
               THEN /\ resp' = [Reply("update_transaction", 404, cred, req) EXCEPT
                                   !.caller = users[u].id]
                    /\ UNCHANGED <<users, transactions, budgets, issued, now, ticks, reg>>
               ELSE LET after == [transactions EXCEPT
                                     ![m] = SetFields(@, UpdateFields(data))]
                        doc == after[FirstTxById(after, txid)]
                    IN /\ transactions' = after
                       /\ resp' = IF TxParses(doc) /\ TxSerializes(doc)
                                  THEN [Reply("update_transaction", 200, cred, req) EXCEPT
                                           !.caller = users[u].id,
                                           !.body = <<TxModel(doc)>>]
                                  ELSE [Reply("update_transaction", 500, cred, req) EXCEPT
                                           !.caller = users[u].id]
                       /\ UNCHANGED <<users, budgets, issued, now, ticks, reg>>

\* DELETE /transactions/{transaction_id}
DeleteTransaction_Remove(cred, txid) ==
    LET u == get_current_user(cred, users, now)
        req == [txid |-> txid]
    IN IF u = 0 THEN Denied("delete_transaction", cred, req)
       ELSE LET m == MatchOwned(transactions, txid, users[u].id)
            IN IF m = 0
               THEN /\ resp' = [Reply("delete_transaction", 404, cred, req) EXCEPT
                                   !.caller = users[u].id]
                    /\ UNCHANGED <<users, transactions, budgets, issued, now, ticks, reg>>
               ELSE /\ transactions' = SubSeq(transactions, 1, m - 1)
                                           \o SubSeq(transactions, m + 1, Len(transactions))
                    /\ resp' = [Reply("delete_transaction", 200, cred, req) EXCEPT
                                   !.caller = users[u].id]
                    /\ UNCHANGED <<users, budgets, issued, now, ticks, reg>>
DeleteTransaction(cred, txid) ==
    LET u == get_current_user(cred, users, now)
        req == [txid |-> txid]
    IN IF u = 0 THEN Denied("delete_transaction", cred, req)
       ELSE LET m == MatchOwned(transactions, txid, users[u].id)
            IN IF m = 0
               THEN /\ resp' = [Reply("delete_transaction", 404, cred, req) EXCEPT
                                   !.caller = users[u].id]
                    /\ UNCHANGED <<users, transactions, budgets, issued, now, ticks, reg>>
               ELSE /\ transactions' = [transactions EXCEPT
                                           ![m] = SetFields(@, DeleteFields)]
                    /\ resp' = [Reply("delete_transaction", 200, cred, req) EXCEPT
                                   !.caller = users[u].id]
                    /\ UNCHANGED <<users, budgets, issued, now, ticks, reg>>

----------------------------------------------------------------------------
(* Dashboard, budgets, insights *)

\* GET /dashboard?period=...
GetDashboardData(cred, period) ==
    LET u == get_current_user(cred, users, now)
        req == [period |-> period]
    IN IF u = 0 THEN Denied("dashboard", cred, req)
       ELSE /\ \E r \in get_dashboard_data(transactions, UserModel(users[u]), period, now) :
                 resp' = [Reply("dashboard", r.status, cred, req) EXCEPT
                             !.caller = users[u].id, !.dash = r.dash]
            /\ UNCHANGED <<users, transactions, budgets, issued, now, ticks, reg>>

\* POST /budgets
CreateBudget(cred, data) ==
    LET u == get_current_user(cred, users, now)
    IN IF u = 0 THEN Denied("create_budget", cred, data)
       ELSE LET doc == NewBudget(Len(budgets) + 1, users[u].id, data)
            IN /\ Len(budgets) < MaxBudgets
               /\ budgets' = Append(budgets, doc)
               /\ resp' = [Reply("create_budget", 200, cred, data) EXCEPT
                              !.caller = users[u].id, !.body = <<doc>>]
               /\ UNCHANGED <<users, transactions, issued, now, ticks, reg>>

\* GET /budgets
GetBudgets(cred) ==
    LET u == get_current_user(cred, users, now)
    IN IF u = 0 THEN Denied("get_budgets", cred, <<>>)
       ELSE /\ resp' = [Reply("get_budgets", 200, cred, <<>>) EXCEPT
                           !.caller = users[u].id,
                           !.body = get_budgets(budgets, users[u].id)]
            /\ UNCHANGED <<users, transactions, budgets, issued, now, ticks, reg>>

\* GET /insights
GetInsights(cred) ==
    LET u == get_current_user(cred, users, now)
    IN IF u = 0 THEN Denied("insights", cred, <<>>)
       ELSE LET r == get_insights(transactions, UserModel(users[u]), now)
            IN /\ resp' = [Reply("insights", r.status, cred, <<>>) EXCEPT
                              !.caller = users[u].id, !.insights = r.insights]
               /\ UNCHANGED <<users, transactions, budgets, issued, now, ticks, reg>>

\* Time passes
Tick(step) ==
    /\ ticks < MaxTicks
    /\ now + step <= LastInstant
    /\ now' = now + step
    /\ ticks' = ticks + 1
    /\ resp' = NoReply
    /\ UNCHANGED <<users, transactions, budgets, issued, reg>>

----------------------------------------------------------------------------
(* Requests *)

Emails == {"a@x", "b@x"}
Passwords == {"pw", "other"}

\* Bodies of PUT /user/settings that change the email
EmailSettings == {[email |-> e] : e \in Emails}

\* period: "monthly", "weekly", and one of the values that fall to the
\* else branch (30 days)
PeriodKeywords == {"monthly", "weekly", "quarter"}

\* What a logged-in client presents: nothing, or a token it was issued
SessionCredentials == {NoCred} \cup issued

----------------------------------------------------------------------------
(* Accounts: registration, login, profile *)

Next ==
    \/ \E e \in Emails : Register(e, "pw")
    \/ \E e \in Emails, pw \in Passwords : Login(e, pw)
    \/ \E c \in Credentials : GetCurrentUserInfo(c)
    \/ \E c \in SessionCredentials, st \in EmailSettings : UpdateUserSettings(c, st)
    \/ Tick(Days(31))

Spec == Init /\ [][Next]_vars

----------------------------------------------------------------------------
(* Accounts under concurrent requests: the server awaits each store call,  *)
(* so other requests run between the find_one and the insert_one of a      *)
(* registration.                                                           *)

NextRace ==
    \/ \E p \in 1..MaxProcs, e \in Emails : RegisterFind(p, e, "pw")
    \/ \E p \in 1..MaxProcs : RegisterInsert(p)
    \/ \E e \in Emails, pw \in Passwords : Login(e, pw)
    \/ \E c \in SessionCredentials, st \in EmailSettings : UpdateUserSettings(c, st)

SpecRace == Init /\ [][NextRace]_vars

----------------------------------------------------------------------------
(* The ledger: two logged-in users create, change, delete and read         *)
(* transactions                                                            *)

\* Body of POST /transactions: an expense, its date left to the server
LedgerCreateData ==
    {[type |-> "expense", amount |-> 60, category |-> "Food", date |-> NoDate]}

\* Bodies of PUT /transactions/{id}: the transaction becomes an income of
\* another amount, dated by the client; one body has a type that does not
\* pass validation
LedgerUpdateData ==
    [type : {"income", "lottery"}, amount : {75}, category : {"Food"},
     date : {DateTime(n, 0) : n \in StartInstants}]

\* limit: int = 100, offset: int = 0, category = None, type = None
DefaultListQuery == [limit |-> 100, offset |-> 0, category |-> "", type |-> ""]

NextLedger ==
    \/ \E e \in Emails : Register(e, "pw")
    \/ \E c \in issued, d \in LedgerCreateData : CreateTransaction(c, d)
    \/ \E c \in issued : GetTransactions(c, DefaultListQuery)
    \/ \E c \in issued, id \in 1..MaxTx, d \in LedgerUpdateData :
          UpdateTransaction(c, id, d)
    \/ \E c \in issued, id \in 1..MaxTx : DeleteTransaction(c, id)
    \/ \E c \in issued : GetDashboardData(c, "monthly")

SpecLedger == Init /\ [][NextLedger]_vars

----------------------------------------------------------------------------
(* Authentication: every protected endpoint, under every kind of credential *)

\* Body of PUT /user/settings that changes the budget
BudgetSettings == {[monthly_budget |-> 0]}
\* Body of PUT /transactions/{id} that passes validation
AuthUpdateData == {d \in LedgerUpdateData : d.type = "income"}
\* Body of POST /budgets
BudgetData == {[category |-> "Food", limit |-> 5000, period |-> "monthly"]}

NextAuth ==
    \/ Register("a@x", "pw")
    \/ Login("a@x", "pw")
    \/ \E c \in Credentials : GetCurrentUserInfo(c)
    \/ \E c \in Credentials, st \in BudgetSettings : UpdateUserSettings(c, st)
    \/ \E c \in Credentials, d \in LedgerCreateData : CreateTransaction(c, d)
    \/ \E c \in Credentials : GetTransactions(c, DefaultListQuery)
    \/ \E c \in Credentials, id \in 1..MaxTx, d \in AuthUpdateData :
          UpdateTransaction(c, id, d)
    \/ \E c \in Credentials, id \in 1..MaxTx : DeleteTransaction(c, id)
    \/ \E c \in Credentials : GetDashboardData(c, "monthly")
    \/ \E c \in Credentials, d \in BudgetData : CreateBudget(c, d)
    \/ \E c \in Credentials : GetBudgets(c)
    \/ \E c \in Credentials : GetInsights(c)
    \/ Tick(Days(31))

SpecAuth == Init /\ [][NextAuth]_vars

----------------------------------------------------------------------------
(* The budget gauge: expenses against every kind of monthly budget *)

\* Bodies of PUT /user/settings: a budget of zero, below zero, small, NaN
GaugeSettings == {[monthly_budget |-> b] : b \in {0, -100, 50, NaN}}
\* Bodies of POST /transactions: expenses below and above the budgets
GaugeCreateData ==
    [type : {"expense"}, amount : {20, 12000}, category : {"Food"}, date : {NoDate}]

NextGauge ==
    \/ Register("a@x", "pw")
    \/ \E c \in SessionCredentials, st \in GaugeSettings : UpdateUserSettings(c, st)
    \/ \E c \in SessionCredentials, d \in GaugeCreateData : CreateTransaction(c, d)
    \/ \E c \in SessionCredentials, p \in PeriodKeywords : GetDashboardData(c, p)

SpecGauge == Init /\ [][NextGauge]_vars

----------------------------------------------------------------------------
(* The list: filters, paging and order over dates written with offsets *)

\* Bodies of POST /transactions: 28 Feb 12:00-12:00 (1 March 00:00 UTC) and
\* 1 March 00:00+12:00 (28 Feb 12:00 UTC)
ListCreateData ==
    UNION {{[type |-> "expense", amount |-> 60, category |-> "Food",
             date |-> DateTime(MonthStart(n) - 1, -1)],
            [type |-> "expense", amount |-> 60, category |-> "Food",
             date |-> DateTime(MonthStart(n), 1)],
            [type |-> "income", amount |-> 60, category |-> "Food",
             date |-> DateTime(MonthStart(n) - 1, -1)],
            [type |-> "expense", amount |-> 60, category |-> "Rent",
             date |-> DateTime(MonthStart(n), 1)]} : n \in StartInstants}
\* limit, offset, and no filter, a category filter or a type filter
ListQueries ==
    {[limit |-> l, offset |-> o, category |-> f[1], type |-> f[2]] :
        l \in {0, 1, 2}, o \in {0, 1},
        f \in {<<"", "">>, <<"Food", "">>, <<"", "expense">>}}

NextList ==
    \/ \E e \in Emails : Register(e, "pw")
    \/ \E c \in SessionCredentials, d \in ListCreateData : CreateTransaction(c, d)
    \/ \E c \in SessionCredentials, id \in 1..MaxTx : DeleteTransaction(c, id)
    \/ \E c \in SessionCredentials, q \in ListQueries : GetTransactions(c, q)

SpecList == Init /\ [][NextList]_vars

----------------------------------------------------------------------------
(* The dashboard: every period keyword over dates around the month start *)

\* Bodies of POST /transactions: dated by the server (now), 28 Feb 00:00 UTC,
\* or 28 Feb 12:00-12:00 (1 March 00:00 UTC)
DashCreateData ==
    [type : {"income", "expense"}, amount : {60}, category : {"Food"},
     date : {NoDate}
            \cup {DateTime(MonthStart(n) - 2, 0) : n \in StartInstants}
            \cup {DateTime(MonthStart(n) - 1, -1) : n \in StartInstants}]

NextDash ==
    \/ \E e \in Emails : Register(e, "pw")
    \/ \E c \in SessionCredentials, d \in DashCreateData : CreateTransaction(c, d)
    \/ \E c \in SessionCredentials, id \in 1..MaxTx : DeleteTransaction(c, id)
    \/ \E c \in SessionCredentials, p \in PeriodKeywords : GetDashboardData(c, p)

SpecDash == Init /\ [][NextDash]_vars

----------------------------------------------------------------------------
(* Insights over the year: the server's clock stands in any month *)

\* The first, the third and the last day of every month, at 12:00 UTC
InsightInstants ==
    UNION {{Days(DaysBefore(m)) + 1, Days(DaysBefore(m) + 2) + 1,
            Days(DaysBefore(m + 1) - 1) + 1} : m \in 1..12}

InitInsights ==
    /\ users = <<>>
    /\ transactions = <<>>
    /\ budgets = <<>>
    /\ issued = {}
    /\ now \in InsightInstants
    /\ ticks = 0
    /\ reg = [p \in 1..MaxProcs |-> Idle]
    /\ resp = NoReply

\* Bodies of POST /transactions: an expense or an income dated by the
\* server, and an expense the client dates 40 days back
InsightCreateData(t) ==
    {[type |-> "expense", amount |-> 60, category |-> "Food", date |-> NoDate],
     [type |-> "income", amount |-> 500, category |-> "Pay", date |-> NoDate],
     [type |-> "expense", amount |-> 90, category |-> "Rent",
      date |-> DateTime(t - Days(40), 0)]}

NextInsights ==
    \/ Register("a@x", "pw")
    \/ \E c \in issued, d \in InsightCreateData(now) : CreateTransaction(c, d)
    \/ \E c \in issued, id \in 1..MaxTx : DeleteTransaction(c, id)
    \/ \E c \in issued : GetInsights(c)

SpecInsights == InitInsights /\ [][NextInsights]_vars

----------------------------------------------------------------------------
(* Insights over a filled ledger: one registered user who has posted up to *)
(* MaxPurchases small expenses and some of a few other expenses            *)

TipPurchase == [type |-> "expense", amount |-> 60, category |-> "Food", date |-> NoDate]
\* Other expenses: three more categories, an amount of exactly 100, and one
\* above the default budget
TipExtras ==
    <<[type |-> "expense", amount |-> 60, category |-> "Rent", date |-> NoDate],
      [type |-> "expense", amount |-> 60, category |-> "Travel", date |-> NoDate],
      [type |-> "expense", amount |-> 20, category |-> "Books", date |-> NoDate],
      [type |-> "expense", amount |-> 40, category |-> "Books", date |-> NoDate],
      [type |-> "expense", amount |-> 100, category |-> "Rent", date |-> NoDate],
      [type |-> "expense", amount |-> 12000, category |-> "Travel", date |-> NoDate]>>

\* The bodies posted: the chosen extras in order, then n small purchases
TipBodies(chosen, n) ==
    SelectSeq(TipExtras, LAMBDA d : d \in chosen) \o [k \in 1..n |-> TipPurchase]

\* The store after the user has registered and posted the bodies
TipLedger(bodies, t) == [k \in 1..Len(bodies) |-> NewTransaction(k, 1, bodies[k], t)]

InitTips ==
    /\ now \in StartInstants
    /\ users = <<NewUser(1, "a@x", "pw")>>
    /\ issued = {create_access_token(1, now)}
    /\ \E chosen \in SUBSET {TipExtras[k] : k \in 1..Len(TipExtras)}, n \in 0..MaxPurchases :
          transactions = TipLedger(TipBodies(chosen, n), now)
    /\ budgets = <<>>
    /\ ticks = 0
    /\ reg = [p \in 1..MaxProcs |-> Idle]
    /\ resp = NoReply

\* Bodies of PUT /user/settings: a budget equal to three small purchases
TipSettings == {[monthly_budget |-> 180]}

NextTips ==
    \/ \E c \in issued, st \in TipSettings : UpdateUserSettings(c, st)
    \/ \E c \in issued : GetInsights(c)

SpecTips == InitTips /\ [][NextTips]_vars

----------------------------------------------------------------------------
(* Two users side by side: each writes with its own token, and the         *)
(* settings body may name any field of the user document                   *)

\* Bodies of PUT /user/settings: a budget, or the id field itself
IsolationSettings ==
    {[monthly_budget |-> 50]} \cup {[id |-> i] : i \in 1..MaxUsers}

NextIsolation ==
    \/ \E e \in Emails : Register(e, "pw")
    \/ \E c \in issued, st \in IsolationSettings : UpdateUserSettings(c, st)
    \/ \E c \in issued, d \in LedgerCreateData : CreateTransaction(c, d)
    \/ \E c \in issued, id \in 1..MaxTx, d \in AuthUpdateData :
          UpdateTransaction(c, id, d)
    \/ \E c \in issued, id \in 1..MaxTx : DeleteTransaction(c, id)
    \/ \E c \in issued, d \in BudgetData : CreateBudget(c, d)
    \/ \E c \in issued : GetCurrentUserInfo(c)

SpecIsolation == Init /\ [][NextIsolation]_vars

----------------------------------------------------------------------------
(* Dates: a transaction is changed with and without the optional date *)

\* Bodies of PUT /transactions/{id}: the date omitted, or given
DateUpdateData(t) ==
    [type : {"income"}, amount : {75}, category : {"Food", "Pay"},
     date : {NoDate, DateTime(t, 0), DateTime(t - Days(1), 0)}]

NextDates ==
    \/ \E e \in Emails : Register(e, "pw")
    \/ \E c \in issued, d \in LedgerCreateData : CreateTransaction(c, d)
    \/ \E c \in issued, id \in 1..MaxTx, d \in DateUpdateData(now) :
          UpdateTransaction(c, id, d)
    \/ \E c \in issued : GetTransactions(c, DefaultListQuery)

SpecDates == Init /\ [][NextDates]_vars

----------------------------------------------------------------------------
(* Input validation: every type and amount a request body can carry *)

\* Bodies of POST and PUT /transactions: valid and invalid types; positive,
\* zero, negative and NaN amounts
ValidationData ==
    [type : {"expense", "lottery"}, amount : {60, 0, -5, NaN},
     category : {"Food"}, date : {NoDate}]

NextValidation ==
    \/ Register("a@x", "pw")
    \/ \E c \in SessionCredentials, d \in ValidationData : CreateTransaction(c, d)
    \/ \E c \in SessionCredentials, id \in 1..MaxTx, d \in ValidationData :
          UpdateTransaction(c, id, d)

SpecValidation == Init /\ [][NextValidation]_vars

----------------------------------------------------------------------------
(* Claims *)

\* Some stored user record carries the email
EmailTaken(email) == \E i \in 1..Len(users) : users[i].email = email

\* C1: a register request for an email that already belongs to a stored user
\* is answered with 400, issues no token and leaves the user records as
\* they were; so every attempt after a successful registration fails while
\* the email is still held.
C1_DuplicateEmailRejected ==
    [][(resp'.op = "register" /\ EmailTaken(resp'.req.email))
         => /\ resp'.status = 400
            /\ resp'.token = NoCred
            /\ issued' = issued
            /\ users' = users]_vars

\* A second registration with the email of a registered user was refused
C1_Witness ==
    /\ resp.op = "register"
    /\ resp.status = 400
    /\ EmailTaken(resp.req.email)
    /\ Len(users) < MaxUsers

\* C8: users are unique by email in every reachable state, under any
\* interleaving of register requests and user/settings updates.
C8_UniqueEmails ==
    \A i, j \in 1..Len(users) : i # j => users[i].email # users[j].email

\* C2: requests with an amount <= 0 or a type other than income/expense
\* are rejected, so every stored transaction has amount > 0 and a type in
\* {income, expense}.
C2_StoredTransactionsValid ==
    \A i \in 1..Len(transactions) :
        /\ transactions[i].type \in {"income", "expense"}
        /\ transactions[i].amount # NaN
        /\ transactions[i].amount > 0

\* The documents of a collection that are not soft-deleted
Live(txs) == SelectSeq(txs, LAMBDA t : ~t.deleted)

\* No read of any user shows a deleted transaction: the list and the
\* dashboard's recent_transactions hold none, and the dashboard and the
\* insights are what they would be if the deleted documents did not exist
C3_ReadsExcludeDeleted ==
    \A u \in 1..Len(users) :
        LET user == UserModel(users[u]) IN
        /\ \A r \in get_transactions(transactions, user.id, 100, 0, "", "") :
              \A k \in 1..Len(r.body) : ~r.body[k].deleted
        /\ \A p \in PeriodKeywords :
              /\ \A r \in get_dashboard_data(transactions, user, p, now) :
                    \A k \in 1..Len(r.dash.recent_transactions) :
                        ~r.dash.recent_transactions[k].deleted
              /\ get_dashboard_data(transactions, user, p, now)
                    = get_dashboard_data(Live(transactions), user, p, now)
        /\ get_insights(transactions, user, now) = get_insights(Live(transactions), user, now)

\* A deleted transaction stays stored and stays deleted
C3_DeletedStays ==
    \A i \in 1..Len(transactions) :
        transactions[i].deleted =>
            /\ i <= Len(transactions')
            /\ transactions'[i].id = transactions[i].id
            /\ transactions'[i].deleted

\* C3: once delete-transaction has succeeded for a transaction, no later
\* operation clears its deleted flag, and it appears in no transactions
\* list, no recent_transactions and no dashboard or insights aggregate.
C3_DeletedNeverShown == []C3_ReadsExcludeDeleted /\ [][C3_DeletedStays]_vars

\* A user with a deleted and a live transaction was served the list
C3_Witness ==
    /\ resp.op = "get_transactions"
    /\ resp.status = 200
    /\ Len(resp.body) >= 1
    /\ \E i \in 1..Len(transactions) :
          /\ transactions[i].deleted
          /\ transactions[i].user_id = resp.caller
          /\ transactions[i].type = "income"

\* C6: when an authenticated user calls update-transaction (with a body
\* that passes validation) or delete-transaction with the id of a
\* transaction of another user, the answer is 404; the stored transactions
\* are unchanged in either case.
C6_ForeignTransactionUntouched ==
    [][(/\ resp'.op \in {"update_transaction", "delete_transaction"}
        /\ resp'.caller # 0
        /\ \E i \in 1..Len(transactions) :
              /\ transactions[i].id = resp'.req.txid
              /\ transactions[i].user_id # resp'.caller)
         => /\ transactions' = transactions
            /\ (resp'.op = "update_transaction"
                    => \/ resp'.status = 404
                       \/ resp'.req.data.type \notin {"income", "expense"}
                       \/ resp'.req.data.amount <= 0)
            /\ (resp'.op = "delete_transaction" => resp'.status = 404)]_vars

\* A user was refused the deletion of another user's live transaction
C6_Witness ==
    /\ resp.op = "delete_transaction"
    /\ resp.status = 404
    /\ resp.caller # 0
    /\ \E i \in 1..Len(transactions) :
          /\ transactions[i].id = resp.req.txid
          /\ transactions[i].user_id # resp.caller
          /\ ~transactions[i].deleted

ProtectedOps ==
    {"user/me", "user/settings", "create_transaction", "get_transactions",
     "update_transaction", "delete_transaction", "dashboard", "create_budget",
     "get_budgets", "insights"}

\* The credential is a validly signed, unexpired token whose subject is the
\* id of a stored user
ResolvesToUser(c) ==
    /\ c.sig = "valid"
    /\ c.exp >= now
    /\ c.sub # NoSub
    /\ \E i \in 1..Len(users) : users[i].id = c.sub

\* C7: every protected endpoint answers 401 and changes no stored state
\* when the request carries no token, a token with an invalid signature,
\* an expired token, a token without subject or a token whose subject
\* matches no stored user; it proceeds only for a valid, unexpired token
\* that resolves to a stored user.
C7_UnauthorizedIs401 ==
    [][resp'.op \in ProtectedOps
         => /\ ~ResolvesToUser(resp'.cred)
                  => resp'.status = 401 /\ store' = store
            /\ resp'.status # 401 => ResolvesToUser(resp'.cred)]_vars

\* The same with the refusal of a request without credentials left open
\* between 401 and 403
C7_UnauthorizedIsRefused ==
    [][resp'.op \in ProtectedOps
         => /\ ~ResolvesToUser(resp'.cred)
                  => /\ resp'.status \in {401, 403}
                     /\ resp'.status = 403 => resp'.cred = NoCred
                     /\ store' = store
            /\ resp'.status \notin {401, 403} => ResolvesToUser(resp'.cred)]_vars

\* Indices of the stored transactions that are not deleted
NotDeleted == {i \in 1..Len(transactions) : ~transactions[i].deleted}

\* The answer in resp is a dashboard
DashboardServed == resp.op = "dashboard" /\ resp.status = 200

\* Sum of the amounts of the stored transactions with the indices S
RECURSIVE SumOf(_)
SumOf(S) ==
    IF S = {} THEN 0
    ELSE LET i == CHOOSE x \in S : TRUE
         IN transactions[i].amount + SumOf(S \ {i})

\* The caller's non-deleted transactions of a type whose date is at or
\* after the start of the period
InPeriod(uid, period, type) ==
    {i \in NotDeleted :
        /\ transactions[i].user_id = uid
        /\ transactions[i].type = type
        /\ ~transactions[i].date.null
        /\ Instant(parse_from_mongo(transactions[i].date)) >= PeriodStart(period, now)}

\* C4: the dashboard's balance is total_income - total_expenses, and the two
\* totals are the sums of the amounts of the user's non-deleted income and
\* expense transactions dated in the period.
C4_BalanceOfPeriod ==
    DashboardServed
        => /\ resp.dash.balance = resp.dash.total_income - resp.dash.total_expenses
           /\ resp.dash.total_income
                  = SumOf(InPeriod(resp.caller, resp.req.period, "income"))
           /\ resp.dash.total_expenses
                  = SumOf(InPeriod(resp.caller, resp.req.period, "expense"))

\* The balance identity alone, and the totals over the transactions the
\* store's text comparison keeps
C4_BalanceIdentity ==
    DashboardServed
        => /\ resp.dash.balance = resp.dash.total_income - resp.dash.total_expenses
           /\ \A type \in {"income", "expense"} :
                 SumOf({i \in NotDeleted :
                           /\ transactions[i].user_id = resp.caller
                           /\ transactions[i].type = type
                           /\ ~StoredLess(transactions[i].date,
                                  isoformat(UtcNow(PeriodStart(resp.req.period, now))))})
                    = IF type = "income" THEN resp.dash.total_income
                      ELSE resp.dash.total_expenses

\* C5: budget_used_percent of a dashboard never exceeds 100, whatever the
\* expense total and whatever monthly_budget the user has, zero and negative
\* budgets set through user/settings included.
C5_BudgetUsedAtMost100 ==
    DashboardServed
        => LET p == resp.dash.budget_used_percent
           IN p[2] > 0 /\ p[1] >= 0 /\ p[1] <= 100 * p[2]

\* Dashboards were served at the cap, under a zero or negative budget, and
\* under the default budget
C5_Witness ==
    /\ DashboardServed
    /\ resp.dash.total_expenses > 50
    /\ \E i \in 1..Len(users) :
          /\ users[i].id = resp.caller
          /\ users[i].monthly_budget = 50
    /\ resp.dash.budget_used_percent = <<100, 1>>

C5_WitnessNoBudget ==
    /\ DashboardServed
    /\ resp.dash.total_expenses > 0
    /\ \E i \in 1..Len(users) :
          /\ users[i].id = resp.caller
          /\ users[i].monthly_budget \in {0, -100}
    /\ resp.dash.budget_used_percent = <<0, 1>>

\* C10: for every period keyword the daily series of a dashboard has 7
\* entries, one per calendar day from 6 days before today through today,
\* ascending, each with the sum of the user's non-deleted expenses dated on
\* that day.
C10_DailySeries ==
    DashboardServed
        => LET trend == resp.dash.monthly_trend
               today == DayOf(now)
           IN /\ Len(trend) = 7
              /\ \A k \in 1..Len(trend) :
                    /\ trend[k].date = today - 7 + k
                    /\ trend[k].amount
                          = SumOf({i \in NotDeleted :
                                      /\ transactions[i].user_id = resp.caller
                                      /\ transactions[i].type = "expense"
                                      /\ ~transactions[i].date.null
                                      /\ LocalDay(parse_from_mongo(transactions[i].date))
                                             = trend[k].date})

\* The same for the periods that reach back at least 7 days
C10_DailySeriesLongPeriod ==
    DashboardServed /\ resp.req.period # "monthly" => C10_DailySeries

\* The answer in resp is a transactions list
ListServed == resp.op = "get_transactions" /\ resp.status = 200

\* The caller's non-deleted transactions that match the filters given
Matching(uid, q) ==
    {i \in NotDeleted :
        /\ transactions[i].user_id = uid
        /\ (q.category # "" => transactions[i].category = q.category)
        /\ (q.type # "" => transactions[i].type = q.type)}

\* The instant of a listed transaction
ListedInstant(t) == Instant(t.date)
StoredInstant(i) == Instant(parse_from_mongo(transactions[i].date))

\* The body is drawn from the matching transactions, each at most once
C9_FromMatching ==
    ListServed
        => /\ \A k \in 1..Len(resp.body) :
                 \E i \in Matching(resp.caller, resp.req) :
                    resp.body[k] = TxModel(transactions[i])
           /\ \A k, l \in 1..Len(resp.body) :
                 k # l => resp.body[k].id # resp.body[l].id

\* The body holds what is left of the matching transactions after the
\* first offset, and no more than limit of it
C9_PageSize ==
    ListServed
        => LET n == Cardinality(Matching(resp.caller, resp.req))
               rest == IF n > resp.req.offset THEN n - resp.req.offset ELSE 0
           IN Len(resp.body) = IF rest < resp.req.limit THEN rest ELSE resp.req.limit

\* The k-th entry of the body stands at place offset + k of the matching
\* transactions taken newest first (entries of one instant in any order)
C9_NewestFirst ==
    ListServed
        => \A k \in 1..Len(resp.body) :
              LET at == ListedInstant(resp.body[k])
                  m == Matching(resp.caller, resp.req)
                  newer == {i \in m : StoredInstant(i) > at}
                  notOlder == {i \in m : StoredInstant(i) >= at}
              IN /\ Cardinality(newer) <= resp.req.offset + k - 1
                 /\ Cardinality(notOlder) >= resp.req.offset + k

\* C9: the list returns exactly the user's non-deleted transactions that
\* match the category and type filters, newest first by transaction date,
\* with the first offset entries skipped and at most limit entries returned.
C9_ListSemantics == C9_FromMatching /\ C9_PageSize /\ C9_NewestFirst

\* The same for a positive limit, with the order taken in the stored text
\* of the dates instead of their instants
C9_ListInStoredOrder ==
    ListServed /\ resp.req.limit > 0
        => /\ C9_FromMatching
           /\ C9_PageSize
           /\ \A k \in 1..Len(resp.body) :
                 LET at == prepare_for_mongo(resp.body[k].date)
                     m == Matching(resp.caller, resp.req)
                     newer == {i \in m : StoredLess(at, transactions[i].date)}
                     notOlder == {i \in m : ~StoredLess(transactions[i].date, at)}
                 IN /\ Cardinality(newer) <= resp.req.offset + k - 1
                    /\ Cardinality(notOlder) >= resp.req.offset + k

\* The caller's non-deleted expenses dated in the 30 days up to now
RecentExpenses(uid) ==
    {i \in NotDeleted :
        /\ transactions[i].user_id = uid
        /\ transactions[i].type = "expense"
        /\ ~transactions[i].date.null
        /\ StoredInstant(i) >= now - Days(30)}

\* The monthly budget of the stored user with the id uid
BudgetOf(uid) == users[CHOOSE i \in 1..Len(users) : users[i].id = uid].monthly_budget

\* The projection of an insights response: spend is the 30-day total divided
\* by the day of the month and multiplied by the days of the month, balance
\* the budget less that (quotients compared by cross-multiplication)
ProjectionRight ==
    LET total == SumOf(RecentExpenses(resp.caller))
        day == DayOf(now)
        days_in_month == MonthLen[MonthOf(day)]
        days_passed == DayOfMonth(day)
        spend == resp.insights.projected_spend
        balance == resp.insights.projected_balance
    IN /\ spend[2] > 0 /\ balance[2] > 0
       /\ spend[1] * days_passed = total * days_in_month * spend[2]
       /\ balance[1] * days_passed
             = (BudgetOf(resp.caller) * days_passed - total * days_in_month) * balance[2]

\* C11: on every current date, December included, an insights request of a
\* user with a non-deleted expense in the trailing 30 days succeeds, with
\* projected_spend the average daily spend times the days of the current
\* month and projected_balance the monthly budget less projected_spend.
C11_ProjectionEveryDate ==
    resp.op = "insights" /\ resp.caller # 0 /\ RecentExpenses(resp.caller) # {}
        => resp.status = 200 /\ ProjectionRight

\* The same for the months January to November
C11_ProjectionBeforeDecember ==
    MonthOf(DayOf(now)) < 12 => C11_ProjectionEveryDate

\* Total of the caller's recent expenses in a category
CategoryTotal(uid, c) ==
    SumOf({i \in RecentExpenses(uid) : transactions[i].category = c})

\* The tips of an insights response, as a set
TipsGiven == {resp.insights.tips[k] : k \in 1..Len(resp.insights.tips)}

\* The tips are the ones the thresholds call for
TipsRight ==
    LET mine == RecentExpenses(resp.caller)
        total == SumOf(mine)
        cats == {transactions[i].category : i \in mine}
        n == Len(resp.insights.tips)
    IN /\ n >= 1 /\ n <= 3
       /\ Cardinality(TipsGiven) = n
       /\ TipsGiven \subseteq {"top_category", "small_purchases", "over_budget", "under_budget"}
       /\ "top_category" \in TipsGiven
             <=> \E c \in cats : CategoryTotal(resp.caller, c) * 100 > 30 * total
       /\ "small_purchases" \in TipsGiven
             <=> Cardinality({i \in mine : transactions[i].amount < 100}) > 10
       /\ "over_budget" \in TipsGiven <=> total > BudgetOf(resp.caller)
       /\ "under_budget" \in TipsGiven <=> ~(total > BudgetOf(resp.caller))

\* C12: with a non-deleted expense in the trailing 30 days insights returns
\* 1 to 3 tips: the dominant-category tip exactly when the largest
\* category's share of the total is strictly above 30%, the small-purchases
\* tip exactly when more than 10 expenses are below 100, and exactly one
\* budget tip, over budget when the total exceeds monthly_budget; with no
\* such expense it returns the single start-tracking tip.
C12_TipsByThreshold ==
    resp.op = "insights" /\ resp.caller # 0
        => /\ resp.status = 200
           /\ IF RecentExpenses(resp.caller) = {}
              THEN resp.insights.tips = <<"start_tracking">>
              ELSE TipsRight

\* The same for the months January to November
C12_TipsBeforeDecember ==
    MonthOf(DayOf(now)) < 12 => C12_TipsByThreshold

\* Responses with and without each tip
C12_SeenTopAbsent ==
    /\ resp.op = "insights" /\ resp.status = 200
    /\ RecentExpenses(resp.caller) # {}
    /\ "top_category" \notin TipsGiven
C12_SeenThreeTips ==
    /\ resp.op = "insights" /\ resp.status = 200
    /\ TipsGiven = {"top_category", "small_purchases", "over_budget"}
C12_SeenSmallUnder ==
    /\ resp.op = "insights" /\ resp.status = 200
    /\ TipsGiven = {"top_category", "small_purchases", "under_budget"}

\* The ids users were registered with: the subjects of the issued tokens
RegisteredIds == {c.sub : c \in issued}

\* What the holder of a token for the id a is answered by user/me, the
\* transactions list, the budgets list, the dashboard and insights
ViewIn(us, txs, bs, t, a) ==
    LET u == get_current_user(create_access_token(a, t), us, t)
        me == UserModel(us[u])
    IN IF u = 0 THEN <<"refused">>
       ELSE <<me,
              get_transactions(txs, me.id, 100, 0, "", ""),
              get_budgets(bs, me.id),
              get_dashboard_data(txs, me, "monthly", t),
              get_insights(txs, me, t)>>
ViewOf(a) == ViewIn(users, transactions, budgets, now, a)
ViewAfter(a) == ViewIn(users', transactions', budgets', now', a)

\* The step served a write made with a token of the id b
WrittenBy(b) ==
    /\ resp'.op \in {"create_transaction", "update_transaction", "delete_transaction",
                     "create_budget", "user/settings"}
    /\ resp'.cred \in issued
    /\ resp'.cred.sub = b

\* Every record in the answers to the id a is a's own
OwnRecordsIn(view, a) ==
    view # <<"refused">>
        => /\ view[1].id = a
           /\ \A r \in view[2] : \A k \in 1..Len(r.body) : r.body[k].user_id = a
           /\ \A k \in 1..Len(view[3]) : view[3][k].user_id = a
           /\ \A r \in view[4] :
                 \A k \in 1..Len(r.dash.recent_transactions) :
                    r.dash.recent_transactions[k].user_id = a

\* C13: for two distinct registered users A and B, no request made with
\* B's token (transactions, budgets, user/settings with arbitrary fields)
\* changes what A is answered by user/me, the transactions list, the
\* budgets list, the dashboard or insights, and those answers hold only
\* records whose user_id is A's id.
C13_NoCrossUserInfluence ==
    [][\A a, b \in RegisteredIds :
          a # b /\ WrittenBy(b)
             => ViewAfter(a) = ViewOf(a) /\ OwnRecordsIn(ViewAfter(a), a)]_vars

\* The same for the steps that leave the id field of every user as it is
C13_IsolatedUnlessIdRewritten ==
    [][\A a, b \in RegisteredIds :
          (/\ a # b
           /\ WrittenBy(b)
           /\ ~(resp'.op = "user/settings" /\ "id" \in DOMAIN resp'.req)
           /\ \A i, j \in 1..Len(users) : (i # j => users[i].id # users[j].id))
             => ViewAfter(a) = ViewOf(a) /\ OwnRecordsIn(ViewAfter(a), a)]_vars

\* The ids of the stored transactions
StoredIds(txs) == {txs[i].id : i \in 1..Len(txs)}

\* C14: transactions are never physically removed: the set of stored
\* transaction ids only grows, and a successful delete-transaction changes
\* only the deleted flag of the targeted transaction, leaving its id,
\* user_id, amount, type, category and date and every other stored
\* transaction unchanged.
C14_SoftDeleteOnly ==
    [][/\ StoredIds(transactions) \subseteq StoredIds(transactions')
       /\ Len(transactions) <= Len(transactions')
       /\ (resp'.op = "delete_transaction" /\ resp'.status = 200)
             => \E m \in 1..Len(transactions) :
                   /\ transactions[m].id = resp'.req.txid
                   /\ transactions[m].user_id = resp'.caller
                   /\ transactions' = [transactions EXCEPT ![m].deleted = TRUE]]_vars

\* A transaction was deleted by its owner and is still stored, flagged,
\* beside a transaction of another user
C14_Witness ==
    /\ resp.op = "delete_transaction"
    /\ resp.status = 200
    /\ \E i, j \in 1..Len(transactions) :
          /\ transactions[i].id = resp.req.txid
          /\ transactions[i].user_id = resp.caller
          /\ transactions[i].deleted
          /\ transactions[j].user_id # resp.caller

\* C15: every stored transaction has a valid date in every reachable state
\* and the owner's transactions list always succeeds; an update that omits
\* the optional date leaves the transaction with a usable date and returns
\* the transaction.
C15_DatesStayValid ==
    /\ \A i \in 1..Len(transactions) : ~transactions[i].date.null
    /\ (resp.op = "get_transactions" /\ resp.caller # 0) => resp.status = 200
    /\ (resp.op = "update_transaction" /\ resp.caller # 0)
          => \/ resp.status = 404
             \/ resp.status = 200 /\ Len(resp.body) = 1 /\ ~resp.body[1].date.null

\* The same while every update carries a date
C15_ValidWhenDateGiven ==
    (\A i \in 1..Len(transactions) : ~transactions[i].date.null) => C15_DatesStayValid

====
